---- MODULE Spec2Model ----
(***************************************************************************)
(* State-machine model of the penguins plugin of socha-python-client       *)
(* (src/socha/api/plugin/penguins.py): the coordinate algebra, the         *)
(* bit-mask Board, and the GameState built on top of it.                   *)
(*                                                                         *)
(* A bit mask (a Python int) is modelled as the set of its set bit         *)
(* positions: m | (1 << i) is m \cup {i}, m ^ (1 << i) is the symmetric    *)
(* difference with {i}, m & (1 << i) != 0 is i \in m.                      *)
(* An Optional value is a sequence of length at most one: None is <<>>.    *)
(* A Team object is modelled by its name (only Team.name is ever read by   *)
(* the operations modelled here).                                          *)
(* pending holds the Fields of a decoded board snapshot that have not yet  *)
(* been written into the board with set_field.                             *)
(* client is the GameClient (game_client.py): its flags, the position of   *)
(* its loop, and what it has called and recorded so far.                   *)
(* net is the NetworkSocket (network_socket.py) together with the bytes    *)
(* its peer has written and the socket has not read yet.                   *)
(***************************************************************************)
EXTENDS Integers, Sequences, FiniteSets, TLC

VARIABLES board, fishes, gs, call, pending, client, net

vars == <<board, fishes, gs, call, pending, client, net>>

(***************************************************************************)
(* Bounds of the model and program constants.                              *)
(***************************************************************************)
NumLayouts == 3

MaxTurn == 1

BoardCells == 64

PenguinLimit == 4

None == <<>>

Some(v) == <<v>>

Get(o) == o[1]

TeamEnum == {"ONE", "TWO"}

\* Team.opponent (only the name of the returned Team is modelled).
opponent(team) ==
    IF team = "ONE" THEN "TWO" ELSE "ONE"

(***************************************************************************)
(* Vector / coordinate algebra.                                            *)
(***************************************************************************)
Vector(d_x, d_y) == [d_x |-> d_x, d_y |-> d_y]

\* Vector.directions, in the order of the source list.
directions ==
    << Vector(1, -1), Vector(-2, 0), Vector(1, 1),
       Vector(-1, 1), Vector(2, 0), Vector(-1, -1) >>

HexCoordinate(x, y) == [x |-> x, y |-> y]

CartesianCoordinate(x, y) == [x |-> x, y |-> y]

\* CartesianCoordinate.to_hex
to_hex(c) ==
    HexCoordinate(c.x * 2 + (IF c.y % 2 = 1 THEN 1 ELSE 0), c.y)

\* A variant of to_index that does not test the column range.
to_index_unchecked_x(c) ==
    IF 0 <= c.y /\ c.y <= 7
    THEN Some(c.y * 8 + c.x)
    ELSE None

\* CartesianCoordinate.to_index: Optional[int]
to_index(c) ==
    IF 0 <= c.x /\ c.x <= 7 /\ 0 <= c.y /\ c.y <= 7
    THEN Some(c.y * 8 + c.x)
    ELSE None

\* Variant of the range test that lets negative indexes through.
from_index_raises_above_only(index) == index > 63

\* Variant of from_index with row and column exchanged.
from_index_transposed(index) == CartesianCoordinate(index \div 8, index % 8)

\* CartesianCoordinate.from_index raises IndexError outside 0..63.
from_index_raises(index) == ~(0 <= index /\ index <= 63)

\* CartesianCoordinate.from_index, where it does not raise.
from_index(index) == CartesianCoordinate(index % 8, index \div 8)

\* Variant of to_cartesian without the shift of the odd rows.
to_cartesian_no_row_shift(h) == CartesianCoordinate((h.x + 1) \div 2, h.y)

\* HexCoordinate.to_cartesian: floor(x/2 - (y odd ? 1 : 0) + 0.5), computed
\* exactly as floor((x - 2p + 1) / 2).
to_cartesian(h) ==
    CartesianCoordinate((h.x - 2 * (IF h.y % 2 = 1 THEN 1 ELSE 0) + 1) \div 2, h.y)

\* HexCoordinate.add_vector
add_vector(h, v) == HexCoordinate(h.x + v.d_x, h.y + v.d_y)

(***************************************************************************)
(* Entities.  A Move object carries, besides its three attributes, its     *)
(* identity: id = k > 0 for the k-th object of the possible_moves list of  *)
(* the GameState held in gs, id = 0 for any object constructed elsewhere.  *)
(* Move defines no __eq__, so Python compares Move objects by identity.    *)
(***************************************************************************)
Move(from_value, to_value, team) ==
    [from_value |-> from_value, to_value |-> to_value, team |-> team, id |-> 0]

Penguin(position, team) == [position |-> position, team |-> team]

Field(coordinate, penguin, fish) ==
    [coordinate |-> coordinate, penguin |-> penguin, fish |-> fish]

Board(one, two, fish_0, fish_1, fish_2, fish_3, fish_4) ==
    [one |-> one, two |-> two, fish_0 |-> fish_0, fish_1 |-> fish_1,
     fish_2 |-> fish_2, fish_3 |-> fish_3, fish_4 |-> fish_4]

Fishes(fishes_one, fishes_two) ==
    [fishes_one |-> fishes_one, fishes_two |-> fishes_two]

(***************************************************************************)
(* Board queries.                                                          *)
(***************************************************************************)
\* Board.get_fish: the first fish mask, in the order 0..4, that has the bit.
get_fish(b, index) ==
    IF index \in b.fish_0 THEN 0
    ELSE IF index \in b.fish_1 THEN 1
    ELSE IF index \in b.fish_2 THEN 2
    ELSE IF index \in b.fish_3 THEN 3
    ELSE IF index \in b.fish_4 THEN 4
    ELSE 0

\* Board.get_penguin
get_penguin(b, coordinate) ==
    LET index == Get(to_index(to_cartesian(coordinate)))
    IN  IF index \in b.one THEN Some(Penguin(coordinate, "ONE"))
        ELSE IF index \in b.two THEN Some(Penguin(coordinate, "TWO"))
        ELSE None

\* Board.get_field (index in 0..63)
get_field(b, index) ==
    LET coordinate == to_hex(from_index(index))
    IN  Field(coordinate, get_penguin(b, coordinate),
              get_fish(b, Get(to_index(to_cartesian(coordinate)))))

\* Board.is_occupied
is_occupied(b, index) == index \in b.one \/ index \in b.two

\* Board.is_valid
is_valid(index) == index < 64

\* Board.is_team
is_team(b, team, index) ==
    IF team = "ONE" THEN index \in b.one ELSE index \in b.two

\* A variant of step_index that adds the direction to the cartesian coordinate.
step_index_cartesian(index, direction) ==
    to_index(CartesianCoordinate(from_index(index).x + direction.d_x,
                                 from_index(index).y + direction.d_y))

\* The index reached from index by one step of direction:
\* from_index(index).to_hex().add_vector(direction).to_cartesian().to_index()
step_index(index, direction) ==
    to_index(to_cartesian(add_vector(to_hex(from_index(index)), direction)))

\* The while loop of Board.get_directive_moves, from the candidate new_index on.
RECURSIVE directive_loop(_, _, _, _, _)
directive_loop(b, origin, new_index, direction, team) ==
    IF /\ new_index # None
       /\ is_valid(Get(new_index))
       /\ ~is_occupied(b, Get(new_index))
       /\ get_fish(b, Get(new_index)) > 0
    THEN <<Move(Some(origin), to_hex(from_index(Get(new_index))), team)>>
         \o directive_loop(b, origin, step_index(Get(new_index), direction),
                           direction, team)
    ELSE <<>>

\* A variant of get_directive_moves that keeps only the farthest landing cell.
get_directive_moves_farthest(b, index, direction, team) ==
    LET all == IF is_team(b, team, index)
               THEN directive_loop(b, to_hex(from_index(index)),
                                   step_index(index, direction), direction, team)
               ELSE <<>>
    IN  IF all = <<>> THEN <<>> ELSE <<all[Len(all)]>>

\* Board.get_directive_moves (index in 0..63)
get_directive_moves(b, index, direction, team) ==
    IF is_team(b, team, index)
    THEN directive_loop(b, to_hex(from_index(index)),
                        step_index(index, direction), direction, team)
    ELSE <<>>

RECURSIVE moves_over_directions(_, _, _, _)
moves_over_directions(b, index, team, k) ==
    IF k > Len(directions) THEN <<>>
    ELSE get_directive_moves(b, index, directions[k], team)
         \o moves_over_directions(b, index, team, k + 1)

\* Board.possible_moves_from
possible_moves_from(b, index, team) == moves_over_directions(b, index, team, 1)

(***************************************************************************)
(* Initial boards.  Layout 0 is the sparse board of the spec's Scenario A  *)
(* (fish-1 bits at cells 1 and 2 only, built with the Board constructor);  *)
(* the other layouts give every cell a fish count, as the transport layer  *)
(* does, and the penguins then replace the fish of their cells.            *)
(***************************************************************************)
Cells == 0 .. (BoardCells - 1)

OneCells == <<0, 27, 36, 63>>

TwoCells == <<3, 28, 35, 56>>

LayoutFish(k, i) ==
    CASE k = 0 -> IF i \in {1, 2} THEN Some(1) ELSE None
      [] k = 1 -> Some(((i % 8) + 2 * (i \div 8)) % 5)
      [] k = 2 -> Some(2 + (i % 3))
      [] OTHER -> Some((i * k + (i \div 8)) % 5)

LayoutBoard(k, n1, n2) ==
    LET one == {OneCells[j] : j \in 1 .. n1}
        two == {TwoCells[j] : j \in 1 .. n2}
        free == Cells \ (one \cup two)
        fishMask(f) == {i \in free : LayoutFish(k, i) = Some(f)}
    IN  Board(one, two, fishMask(0), fishMask(1), fishMask(2), fishMask(3), fishMask(4))

NoCall == [op |-> "none", arg |-> <<>>, err |-> "none", ret |-> <<>>]

\* NetworkSocket.__init__: not connected, empty buffer.  wire holds the bytes
\* the peer has written and recv has not returned yet, stream the framed
\* messages those bytes were made of; chunk and ret are the last result of
\* recv and of receive, returned lists what receive has returned so far.
NoSocket ==
    [connected |-> FALSE, buffer |-> <<>>, wire |-> <<>>, stream |-> <<>>,
     pc |-> "idle", chunk |-> <<>>, ret |-> None, returned |-> <<>>, tick |-> 0]

\* No packet handled yet.  A handled packet is remembered by its kind, its
\* room and what the handler's calculate_move returned for it.
NoPacket == [kind |-> "none", room_id |-> "none", move_response |-> None]

\* The value of client while no GameClient has been constructed.
NoClient ==
    [pc |-> "none", running |-> FALSE, connected |-> FALSE, survive |-> FALSE,
     received |-> 0, left_received |-> FALSE, stop_called |-> FALSE,
     wd_ret |-> "none", wd_tick |-> 0, log |-> <<>>, history |-> <<>>, err |-> "none",
     sent |-> <<>>, last |-> NoPacket]

Init ==
    /\ \E k \in 0 .. (NumLayouts - 1), n1 \in 0 .. PenguinLimit, n2 \in 0 .. PenguinLimit :
          board = LayoutBoard(k, n1, n2)
    /\ fishes = Fishes(0, 0)
    /\ gs = None
    /\ call = NoCall
    /\ pending = <<>>
    /\ client = NoClient
    /\ net = NoSocket

(***************************************************************************)
(* Board mutation.                                                         *)
(***************************************************************************)
\* Variant that rejects only the fish counts above 4.
set_field_raises_above_only(field) ==
    field.penguin = None /\ field.fish > 4

\* Variant that records the fish count of a penguin's field as well.
set_field_keeps_fish(b, field) ==
    LET index == Get(to_index(to_cartesian(field.coordinate)))
        withTeam == IF field.penguin = None THEN b
                    ELSE IF Get(field.penguin).team = "ONE"
                         THEN [b EXCEPT !.one = @ \cup {index}]
                         ELSE [b EXCEPT !.two = @ \cup {index}]
    IN  CASE field.fish = 0 -> [withTeam EXCEPT !.fish_0 = @ \cup {index}]
          [] field.fish = 1 -> [withTeam EXCEPT !.fish_1 = @ \cup {index}]
          [] field.fish = 2 -> [withTeam EXCEPT !.fish_2 = @ \cup {index}]
          [] field.fish = 3 -> [withTeam EXCEPT !.fish_3 = @ \cup {index}]
          [] field.fish = 4 -> [withTeam EXCEPT !.fish_4 = @ \cup {index}]
          [] OTHER -> withTeam

\* Board.set_field raises on a penguin-less field with a fish count outside 0..4.
set_field_raises(field) ==
    field.penguin = None /\ field.fish \notin 0 .. 4

\* Board.set_field, where it does not raise: ORs one bit into one mask.
set_field(b, field) ==
    IF field.penguin # None
    THEN LET penguin == Get(field.penguin)
             index == Get(to_index(to_cartesian(penguin.position)))
         IN  IF penguin.team = "ONE" THEN [b EXCEPT !.one = @ \cup {index}]
             ELSE IF penguin.team = "TWO" THEN [b EXCEPT !.two = @ \cup {index}]
             ELSE b
    ELSE LET fish == field.fish
             index == Get(to_index(to_cartesian(field.coordinate)))
         IN  CASE fish = 0 -> [b EXCEPT !.fish_0 = @ \cup {index}]
               [] fish = 1 -> [b EXCEPT !.fish_1 = @ \cup {index}]
               [] fish = 2 -> [b EXCEPT !.fish_2 = @ \cup {index}]
               [] fish = 3 -> [b EXCEPT !.fish_3 = @ \cup {index}]
               [] fish = 4 -> [b EXCEPT !.fish_4 = @ \cup {index}]
               [] OTHER -> b

\* Board.update: XOR the origin bit, OR the destination bit of the team's mask.
update(b, mv) ==
    LET to_coord == Get(to_index(to_cartesian(mv.to_value)))
    IN  IF mv.from_value # None
        THEN LET from_coord == Get(to_index(to_cartesian(Get(mv.from_value))))
                 toggled(m) == ((m \ {from_coord}) \cup ({from_coord} \ m)) \cup {to_coord}
             IN  IF mv.team = "ONE" THEN [b EXCEPT !.one = toggled(@)]
                 ELSE IF mv.team = "TWO" THEN [b EXCEPT !.two = toggled(@)]
                 ELSE b
        ELSE IF mv.team = "ONE" THEN [b EXCEPT !.one = @ \cup {to_coord}]
             ELSE IF mv.team = "TWO" THEN [b EXCEPT !.two = @ \cup {to_coord}]
             ELSE b

\* The exception Board.move raises, "none" if it returns: mv.from_value is
\* dereferenced without a None test (origin.to_cartesian()), and get_field
\* is given the Optional result of to_index.
move_error(b, mv) ==
    IF mv.from_value = None THEN "AttributeError"
    ELSE IF to_index(to_cartesian(Get(mv.from_value))) = None THEN "TypeError"
    ELSE IF to_index(to_cartesian(mv.to_value)) = None THEN "TypeError"
    ELSE "none"

\* Board.move, where it does not raise: new_board is an alias of self; the
\* fields read at origin and destination are written back with set_field.
\* The result is the content of the one Board object (receiver = result).
move(b, mv) ==
    LET origin_index == Get(to_index(to_cartesian(Get(mv.from_value))))
        destination_index == Get(to_index(to_cartesian(mv.to_value)))
        origin_field == get_field(b, origin_index)
        destination_field == get_field(b, destination_index)
    IN  set_field(set_field(b, origin_field), destination_field)

\* Board.get_teams_penguins: scan of the 64 cells in index order.
RECURSIVE teams_penguins_from(_, _, _)
teams_penguins_from(b, team, index) ==
    IF index >= 64 THEN <<>>
    ELSE (IF is_team(b, team, index)
          THEN <<Penguin(to_hex(from_index(index)), team)>>
          ELSE <<>>)
         \o teams_penguins_from(b, team, index + 1)

get_teams_penguins(b, team) == teams_penguins_from(b, team, 0)

\* Fishes.add_fish (mutates the Fishes object and returns it).
add_fish(f, team, fish) ==
    IF team = "ONE" THEN [f EXCEPT !.fishes_one = @ + fish]
    ELSE [f EXCEPT !.fishes_two = @ + fish]

(***************************************************************************)
(* GameState.                                                              *)
(***************************************************************************)
\* The list `fields` of _get_possible_moves: x is the outer loop, y the inner.
fields(b) ==
    [p \in 1 .. 64 |->
        get_field(b, Get(to_index(CartesianCoordinate((p - 1) \div 8, (p - 1) % 8))))]

RECURSIVE placements_from(_, _, _)
placements_from(fs, team, p) ==
    IF p > Len(fs) THEN <<>>
    ELSE (IF fs[p].penguin = None /\ fs[p].fish = 1
          THEN <<Move(None, fs[p].coordinate, team)>>
          ELSE <<>>)
         \o placements_from(fs, team, p + 1)

\* _get_possible_moves raises TypeError in its slide branch: it calls
\* self.board.possible_moves_from(penguin), passing a Penguin for the index
\* and no team.  The branch is taken, and the call made, when the team has
\* 4 or more penguins.
get_possible_moves_raises(b, team) ==
    Len(get_teams_penguins(b, team)) >= PenguinLimit

\* A variant of the placement branch that also offers zero-fish cells.
get_possible_moves_any_fish(b, team) ==
    LET fs == fields(b)
        F[p \in 1 .. 65] ==
            IF p > 64 THEN <<>>
            ELSE (IF fs[p].penguin = None /\ fs[p].fish <= 1
                  THEN <<Move(None, fs[p].coordinate, team)>> ELSE <<>>) \o F[p + 1]
    IN  F[1]

\* GameState._get_possible_moves, where it does not raise: the placements.
get_possible_moves(b, team) == placements_from(fields(b), team, 1)

\* The nominal team of a turn.
current_team_by_turn(turn, start_team) ==
    IF turn % 2 = 0 THEN start_team ELSE opponent(start_team)

\* A variant of current_team_from_turn without the skip-on-no-moves rule.
current_team_from_turn_no_skip(b, turn, start_team) ==
    current_team_by_turn(turn, start_team)

\* GameState.current_team_from_turn, where _get_possible_moves does not raise.
current_team_from_turn(b, turn, start_team) ==
    IF get_possible_moves(b, current_team_by_turn(turn, start_team)) = <<>>
    THEN opponent(current_team_by_turn(turn, start_team))
    ELSE current_team_by_turn(turn, start_team)

\* The exception GameState.__init__ raises, "none" if construction succeeds.
init_error(b, turn, start_team) ==
    IF get_possible_moves_raises(b, current_team_by_turn(turn, start_team))
    THEN "TypeError"
    ELSE IF get_possible_moves_raises(b, current_team_from_turn(b, turn, start_team))
    THEN "TypeError"
    ELSE "none"

\* The objects of a freshly built possible_moves list, numbered by position.
with_ids(moves) == [k \in 1 .. Len(moves) |-> [moves[k] EXCEPT !.id = k]]

\* int(n / d) for d > 0: the quotient of the true division, truncated
\* toward zero (exact for operands below 2^53).
int_true_div(n, d) == IF n >= 0 THEN n \div d ELSE -((-n) \div d)

\* A variant of the round computation that leaves out the increment.
round_from_turn_no_increment(turn) == int_true_div(turn, 2)

\* self.round = int((self.turn + 1) / 2)
round_from_turn(turn) == int_true_div(turn + 1, 2)

\* GameState.__init__, where it does not raise.  The board and the fishes
\* are held by reference: they are the objects in the variables board, fishes.
GameState(b, turn, start_team, last_move) ==
    LET current_team == current_team_from_turn(b, turn, start_team)
    IN  [start_team |-> start_team,
         turn |-> turn,
         round |-> round_from_turn(turn),
         current_team |-> current_team,
         other_team |-> opponent(current_team),
         last_move |-> last_move,
         current_pieces |-> get_teams_penguins(b, current_team),
         possible_moves |-> with_ids(get_possible_moves(b, current_team))]

\* A variant of is_valid_move that accepts every move.
is_valid_move_always(g, m) == TRUE

\* GameState.is_valid_move: `move in self.possible_moves`, which compares
\* by identity since Move defines no __eq__.
is_valid_move(g, m) ==
    \E k \in 1 .. Len(g.possible_moves) : g.possible_moves[k].id = m.id

\* Structural equality of two moves: origin presence/value, destination, team.
same_move(m1, m2) ==
    /\ m1.from_value = m2.from_value
    /\ m1.to_value = m2.to_value
    /\ m1.team = m2.team

(***************************************************************************)
(* Actions: one per operation a caller can invoke.  A call is made while   *)
(* no result is pending (call = NoCall); the step leaves the arguments,    *)
(* the raised exception ("none" if none) and the returned value in call;   *)
(* Return is the caller dropping the result.                               *)
(***************************************************************************)
QueryCells == {0, 1, 3, 27, 28, 36, 56, 63}

MoveCells == {0, 1, 2, 9}

\* Moves a caller constructs itself (objects outside possible_moves).
FreshMoves ==
    { Move(f, to_hex(from_index(t)), team) :
        f \in {None} \cup {Some(to_hex(from_index(o))) : o \in MoveCells},
        t \in MoveCells, team \in TeamEnum }

\* The moves a caller can pass: the objects of possible_moves, or its own.
CallerMoves ==
    FreshMoves \cup (IF gs = None THEN {}
                     ELSE {Get(gs).possible_moves[k] : k \in 1 .. Len(Get(gs).possible_moves)})

\* GameState(board, turn, start_team, fishes): the snapshot becomes the held state.
Construct(turn, start_team) ==
    /\ call = NoCall
    /\ gs = None
    /\ LET err == init_error(board, turn, start_team)
       IN  /\ call' = [op |-> "GameState", arg |-> <<turn, start_team>>,
                       err |-> err, ret |-> <<>>]
           /\ gs' = IF err = "none"
                    THEN Some(GameState(board, turn, start_team, None))
                    ELSE gs
    /\ UNCHANGED <<board, fishes, pending, client, net>>

NewGameState ==
    \E turn \in 0 .. MaxTurn, start_team \in TeamEnum : Construct(turn, start_team)

\* gs.is_valid_move(move)
IsValidMove ==
    \E m \in CallerMoves :
        /\ call = NoCall
        /\ gs # None
        /\ call' = [op |-> "is_valid_move", arg |-> <<m>>, err |-> "none",
                    ret |-> <<is_valid_move(Get(gs), m)>>]
        /\ UNCHANGED <<board, fishes, gs, pending, client, net>>

\* gs.perform_move(move): the caller holds the returned GameState from then on.
PerformMove ==
    \E m \in CallerMoves :
        /\ call = NoCall
        /\ gs # None
        /\ LET g == Get(gs)
               new_board == move(board, m)
               new_fishes == add_fish(fishes, g.current_team,
                                 get_field(new_board,
                                     Get(to_index(to_cartesian(m.to_value)))).fish)
               err == IF ~is_valid_move(g, m) THEN "InvalidMove"
                      ELSE IF move_error(board, m) # "none" THEN move_error(board, m)
                      ELSE init_error(new_board, g.turn + 1, g.start_team)
           IN  /\ call' = [op |-> "perform_move", arg |-> <<m>>, err |-> err, ret |-> <<>>]
               /\ IF err = "InvalidMove" \/ err = move_error(board, m)
                  THEN UNCHANGED <<board, fishes, gs>>
                  ELSE /\ board' = new_board
                       /\ fishes' = new_fishes
                       /\ gs' = IF err = "none"
                                THEN Some(GameState(new_board, g.turn + 1, g.start_team, Some(m)))
                                ELSE gs
        /\ UNCHANGED <<pending, client, net>>

\* board.move(move)
BoardMove ==
    \E m \in FreshMoves :
        /\ call = NoCall
        /\ LET err == move_error(board, m)
           IN  /\ call' = [op |-> "move", arg |-> <<m>>, err |-> err,
                           ret |-> IF err = "none" THEN <<move(board, m)>> ELSE <<>>]
               /\ board' = IF err = "none" THEN move(board, m) ELSE board
        /\ UNCHANGED <<fishes, gs, pending, client, net>>

\* board.get_directive_moves(index, direction, team)
GetDirectiveMoves ==
    \E index \in QueryCells, d \in 1 .. Len(directions), team \in TeamEnum :
        /\ call = NoCall
        /\ call' = [op |-> "get_directive_moves",
                    arg |-> <<index, directions[d], team>>,
                    err |-> "none",
                    ret |-> get_directive_moves(board, index, directions[d], team)]
        /\ UNCHANGED <<board, fishes, gs, pending, client, net>>

\* board.possible_moves_from(index, team)
PossibleMovesFrom ==
    \E index \in QueryCells, team \in TeamEnum :
        /\ call = NoCall
        /\ call' = [op |-> "possible_moves_from", arg |-> <<index, team>>,
                    err |-> "none",
                    ret |-> possible_moves_from(board, index, team)]
        /\ UNCHANGED <<board, fishes, gs, pending, client, net>>

\* The caller drops the result of the last call.
Return ==
    /\ call # NoCall
    /\ call' = NoCall
    /\ UNCHANGED <<board, fishes, gs, pending, client, net>>

Next ==
    \/ NewGameState
    \/ IsValidMove
    \/ PerformMove
    \/ BoardMove
    \/ GetDirectiveMoves
    \/ PossibleMovesFrom
    \/ Return

Spec == Init /\ [][Next]_vars

(***************************************************************************)
(* The round counter.  The constructor takes any int as the turn: here it  *)
(* is called with turns from a little below zero up to MaxRoundTurn.       *)
(***************************************************************************)
MaxRoundTurn == 9

MaxNegativeTurn == 2

TurnInputs == (0 - MaxNegativeTurn) .. MaxRoundTurn

\* GameState(board, turn, start_team, fishes) with any turn of TurnInputs.
NewGameStateAnyTurn ==
    \E turn \in TurnInputs, start_team \in TeamEnum : Construct(turn, start_team)

NextRound ==
    \/ NewGameStateAnyTurn
    \/ Return

SpecRound == Init /\ [][NextRound]_vars

(***************************************************************************)
(* The fish tallies.  The GameState holds a reference to the Fishes object *)
(* it was constructed with (the variable fishes), and perform_move updates *)
(* the tally by calling add_fish on that object.  SpecTally starts from    *)
(* the boards of a game's first turn (no penguin placed, tallies 0).       *)
(***************************************************************************)
MaxTally == 4

FishCounts == 0 .. 4

\* gs.fishes.add_fish(team, fish): the tally update of perform_move, by itself.
AddFish ==
    \E team \in TeamEnum, fish \in FishCounts :
        /\ call = NoCall
        /\ gs # None
        /\ fishes.fishes_one + fishes.fishes_two + fish <= MaxTally
        /\ fishes' = add_fish(fishes, team, fish)
        /\ call' = [op |-> "add_fish", arg |-> <<team, fish>>, err |-> "none",
                    ret |-> <<add_fish(fishes, team, fish)>>]
        /\ UNCHANGED <<board, gs, pending, client, net>>

InitTally ==
    /\ \E k \in 0 .. (NumLayouts - 1) : board = LayoutBoard(k, 0, 0)
    /\ fishes = Fishes(0, 0)
    /\ gs = None
    /\ call = NoCall
    /\ pending = <<>>
    /\ client = NoClient
    /\ net = NoSocket

NextTally ==
    \/ NewGameState
    \/ PerformMove
    \/ AddFish
    \/ Return

SpecTally == InitTally /\ [][NextTally]_vars

(***************************************************************************)
(* Building a board: starting from the all-zero Board, set_field is called *)
(* once for each cell of a decoded snapshot, in index order.  A snapshot   *)
(* is one of the layouts, and may carry one field whose fish count is not  *)
(* in 0..4; the exception set_field raises for it ends the build.          *)
(***************************************************************************)
EmptyBoard == Board({}, {}, {}, {}, {}, {}, {})

BadFish == {-1, 5}

SpoilCells == {1, 10, 62}

SnapshotField(k, n1, n2, i) ==
    LET coordinate == to_hex(from_index(i))
        fish == IF LayoutFish(k, i) = None THEN 0 ELSE Get(LayoutFish(k, i))
    IN  IF \E j \in 1 .. n1 : OneCells[j] = i
        THEN Field(coordinate, Some(Penguin(coordinate, "ONE")), 0)
        ELSE IF \E j \in 1 .. n2 : TwoCells[j] = i
        THEN Field(coordinate, Some(Penguin(coordinate, "TWO")), 0)
        ELSE Field(coordinate, None, fish)

Snapshot(k, n1, n2) == [p \in 1 .. BoardCells |-> SnapshotField(k, n1, n2, p - 1)]

Snapshots ==
    LET good == { Snapshot(k, n1, n2) : k \in 0 .. (NumLayouts - 1),
                      n1 \in 0 .. PenguinLimit, n2 \in 0 .. PenguinLimit }
    IN  good \cup { [snap EXCEPT ![i + 1] = Field(to_hex(from_index(i)), None, f)] :
                      snap \in good, i \in SpoilCells, f \in BadFish }

InitBuild ==
    /\ board = EmptyBoard
    /\ pending \in Snapshots
    /\ client = NoClient
    /\ net = NoSocket
    /\ fishes = Fishes(0, 0)
    /\ gs = None
    /\ call = NoCall

\* board.set_field(field) for the next field of the snapshot.
SetField ==
    /\ pending # <<>>
    /\ call.err = "none"
    /\ LET field == Head(pending)
       IN  IF set_field_raises(field)
           THEN /\ call' = [op |-> "set_field", arg |-> <<field>>,
                            err |-> "Exception", ret |-> <<>>]
                /\ UNCHANGED <<board, pending>>
           ELSE /\ call' = [op |-> "set_field", arg |-> <<field>>,
                            err |-> "none", ret |-> <<>>]
                /\ board' = set_field(board, field)
                /\ pending' = Tail(pending)
    /\ UNCHANGED <<fishes, gs, client, net>>

NextBuild == SetField

SpecBuild == InitBuild /\ [][NextBuild]_vars

(***************************************************************************)
(* The coordinate conversions and the index test, called on inputs inside  *)
(* the board and up to MaxOutOfRange outside it on every side.             *)
(***************************************************************************)
MaxOutOfRange == 2

IndexInputs == (0 - MaxOutOfRange) .. (63 + MaxOutOfRange)

CartesianInputs ==
    { CartesianCoordinate(x, y) : x \in (0 - MaxOutOfRange) .. (7 + MaxOutOfRange),
                                  y \in (0 - MaxOutOfRange) .. (7 + MaxOutOfRange) }

HexInputs ==
    { HexCoordinate(x, y) : x \in (0 - MaxOutOfRange) .. (15 + MaxOutOfRange),
                            y \in (0 - MaxOutOfRange) .. (7 + MaxOutOfRange) }

InitCoord ==
    /\ board = EmptyBoard
    /\ fishes = Fishes(0, 0)
    /\ gs = None
    /\ call = NoCall
    /\ pending = <<>>
    /\ client = NoClient
    /\ net = NoSocket

\* CartesianCoordinate.from_index(index)
FromIndex ==
    \E index \in IndexInputs :
        /\ call = NoCall
        /\ call' = IF from_index_raises(index)
                   THEN [op |-> "from_index", arg |-> <<index>>,
                         err |-> "IndexError", ret |-> <<>>]
                   ELSE [op |-> "from_index", arg |-> <<index>>,
                         err |-> "none", ret |-> <<from_index(index)>>]
        /\ UNCHANGED <<board, fishes, gs, pending, client, net>>

\* c.to_index(): the returned Optional[int] is ret.
ToIndex ==
    \E c \in CartesianInputs :
        /\ call = NoCall
        /\ call' = [op |-> "to_index", arg |-> <<c>>, err |-> "none", ret |-> to_index(c)]
        /\ UNCHANGED <<board, fishes, gs, pending, client, net>>

\* c.to_hex()
ToHex ==
    \E c \in CartesianInputs :
        /\ call = NoCall
        /\ call' = [op |-> "to_hex", arg |-> <<c>>, err |-> "none", ret |-> <<to_hex(c)>>]
        /\ UNCHANGED <<board, fishes, gs, pending, client, net>>

\* h.to_cartesian()
ToCartesian ==
    \E h \in HexInputs :
        /\ call = NoCall
        /\ call' = [op |-> "to_cartesian", arg |-> <<h>>, err |-> "none",
                    ret |-> <<to_cartesian(h)>>]
        /\ UNCHANGED <<board, fishes, gs, pending, client, net>>

\* board.is_valid(index)
IsValid ==
    \E index \in IndexInputs :
        /\ call = NoCall
        /\ call' = [op |-> "is_valid", arg |-> <<index>>, err |-> "none",
                    ret |-> <<is_valid(index)>>]
        /\ UNCHANGED <<board, fishes, gs, pending, client, net>>

NextCoord ==
    \/ FromIndex
    \/ ToIndex
    \/ ToHex
    \/ ToCartesian
    \/ IsValid
    \/ Return

SpecCoord == InitCoord /\ [][NextCoord]_vars

(***************************************************************************)
(* Board algebra: each operation combines the seven masks of the receiver  *)
(* with the seven masks of the other board, mask by mask (a & b is the     *)
(* intersection of the bit sets, a | b their union, a & ~b the bits of a   *)
(* that are not in b), and returns a new Board.                            *)
(***************************************************************************)
\* Board.equivalence
equivalence(b, other) ==
    /\ b.one = other.one /\ b.two = other.two
    /\ b.fish_0 = other.fish_0 /\ b.fish_1 = other.fish_1
    /\ b.fish_2 = other.fish_2 /\ b.fish_3 = other.fish_3
    /\ b.fish_4 = other.fish_4

\* Board.is_empty
is_empty(b) ==
    /\ b.one = {} /\ b.two = {}
    /\ b.fish_0 = {} /\ b.fish_1 = {}
    /\ b.fish_2 = {} /\ b.fish_3 = {}
    /\ b.fish_4 = {}

\* Board.intersection
intersection(b, other) ==
    Board(b.one \cap other.one, b.two \cap other.two, b.fish_0 \cap other.fish_0,
          b.fish_1 \cap other.fish_1, b.fish_2 \cap other.fish_2,
          b.fish_3 \cap other.fish_3, b.fish_4 \cap other.fish_4)

\* Board.union
union(b, other) ==
    Board(b.one \cup other.one, b.two \cup other.two, b.fish_0 \cup other.fish_0,
          b.fish_1 \cup other.fish_1, b.fish_2 \cup other.fish_2,
          b.fish_3 \cup other.fish_3, b.fish_4 \cup other.fish_4)

\* Variant of difference with the operands exchanged.
difference_reversed(b, other) ==
    Board(other.one \ b.one, other.two \ b.two, other.fish_0 \ b.fish_0,
          other.fish_1 \ b.fish_1, other.fish_2 \ b.fish_2,
          other.fish_3 \ b.fish_3, other.fish_4 \ b.fish_4)

\* Board.difference
difference(b, other) ==
    Board(b.one \ other.one, b.two \ other.two, b.fish_0 \ other.fish_0,
          b.fish_1 \ other.fish_1, b.fish_2 \ other.fish_2,
          b.fish_3 \ other.fish_3, b.fish_4 \ other.fish_4)

\* The boards passed as the other operand.
OtherBoards ==
    {EmptyBoard, Board({0}, {}, {}, {1, 2}, {}, {}, {})}
        \cup { LayoutBoard(k, n, n) : k \in 0 .. (NumLayouts - 1), n \in 0 .. PenguinLimit }

InitAlgebra ==
    /\ board \in {EmptyBoard}
                   \cup { LayoutBoard(k, n, 0) : k \in 0 .. (NumLayouts - 1), n \in 0 .. 1 }
    /\ fishes = Fishes(0, 0)
    /\ gs = None
    /\ call = NoCall
    /\ pending = <<>>
    /\ client = NoClient
    /\ net = NoSocket

\* board.intersection(other)
Intersection ==
    \E other \in OtherBoards :
        /\ call = NoCall
        /\ call' = [op |-> "intersection", arg |-> <<other>>, err |-> "none",
                    ret |-> <<intersection(board, other)>>]
        /\ UNCHANGED <<board, fishes, gs, pending, client, net>>

\* board.union(other)
Union ==
    \E other \in OtherBoards :
        /\ call = NoCall
        /\ call' = [op |-> "union", arg |-> <<other>>, err |-> "none",
                    ret |-> <<union(board, other)>>]
        /\ UNCHANGED <<board, fishes, gs, pending, client, net>>

\* board.difference(other)
Difference ==
    \E other \in OtherBoards :
        /\ call = NoCall
        /\ call' = [op |-> "difference", arg |-> <<other>>, err |-> "none",
                    ret |-> <<difference(board, other)>>]
        /\ UNCHANGED <<board, fishes, gs, pending, client, net>>

NextAlgebra ==
    \/ Intersection
    \/ Union
    \/ Difference
    \/ Return

SpecAlgebra == InitAlgebra /\ [][NextAlgebra]_vars

(***************************************************************************)
(* Single-bit decoding.  get_bit_coordinate is a static method: the board  *)
(* it decodes is its argument.                                             *)
(***************************************************************************)
\* The list `fields` of get_bit_coordinate, by attribute name.
MaskOrder == <<"one", "two", "fish_0", "fish_1", "fish_2", "fish_3", "fish_4">>

\* The loop of get_bit_coordinate: iteration i tests bit `index` of every mask
\* and only then sets index to i.  The result is <<count, index>>.
RECURSIVE bit_count_loop(_, _, _, _)
bit_count_loop(field, i, index, count) ==
    IF i >= 64 THEN <<count, index>>
    ELSE bit_count_loop(field, i + 1, i,
             count + Cardinality({k \in 1 .. Len(MaskOrder) : index \in field[MaskOrder[k]]}))

\* Board.get_bit_coordinate raises ValueError unless the count is 1.
get_bit_coordinate_raises(field) == bit_count_loop(field, 0, 0, 0)[1] # 1

\* Board.get_bit_coordinate, where it does not raise.
get_bit_coordinate(field) == to_hex(from_index(bit_count_loop(field, 0, 0, 0)[2]))

\* The board whose only set bit is bit i of mask name.
SingleBit(name, i) == [EmptyBoard EXCEPT ![name] = {i}]

PairCells == {0, 5, 62, 63}

BitBoards ==
    {EmptyBoard}
        \cup { SingleBit(MaskOrder[k], i) : k \in 1 .. Len(MaskOrder), i \in Cells }
        \cup { union(SingleBit(n, i), SingleBit(m, j)) :
                 n \in {"one", "fish_1"}, m \in {"one", "fish_4"},
                 i \in PairCells, j \in PairCells }

\* Board.get_bit_coordinate(field)
GetBitCoordinate ==
    \E field \in BitBoards :
        /\ call = NoCall
        /\ call' = IF get_bit_coordinate_raises(field)
                   THEN [op |-> "get_bit_coordinate", arg |-> <<field>>,
                         err |-> "ValueError", ret |-> <<>>]
                   ELSE [op |-> "get_bit_coordinate", arg |-> <<field>>,
                         err |-> "none", ret |-> <<get_bit_coordinate(field)>>]
        /\ UNCHANGED <<board, fishes, gs, pending, client, net>>

NextBits ==
    \/ GetBitCoordinate
    \/ Return

SpecBits == InitCoord /\ [][NextBits]_vars

(***************************************************************************)
(* Full-board scans and cell queries.                                      *)
(***************************************************************************)
\* Board.contains_field
contains_field(b, index) ==
    \/ index \in b.one \/ index \in b.two
    \/ index \in b.fish_0 \/ index \in b.fish_1
    \/ index \in b.fish_2 \/ index \in b.fish_3
    \/ index \in b.fish_4

\* Board.empty_bitmask: the bits of the complement of the OR of the seven
\* masks; only its bits 0..63 are ever read.
empty_bitmask(b) ==
    Cells \ (b.one \cup b.two \cup b.fish_0 \cup b.fish_1 \cup b.fish_2
                \cup b.fish_3 \cup b.fish_4)

\* The loop of get_empty_fields, from index on: `for index in range(63)`.
RECURSIVE empty_fields_from(_, _)
empty_fields_from(b, index) ==
    IF index >= 63 THEN <<>>
    ELSE (IF index \in empty_bitmask(b)
          THEN <<Field(to_hex(from_index(index)), None,
                       get_fish(b, Get(to_index(to_cartesian(to_hex(from_index(index)))))))>>
          ELSE <<>>)
         \o empty_fields_from(b, index + 1)

\* Board.get_empty_fields
get_empty_fields(b) == empty_fields_from(b, 0)

\* The loop of get_penguins, from index on.
RECURSIVE penguins_from(_, _)
penguins_from(b, index) ==
    IF index >= 64 THEN <<>>
    ELSE (IF index \in b.one THEN <<Penguin(to_hex(from_index(index)), "ONE")>> ELSE <<>>)
         \o (IF index \in b.two THEN <<Penguin(to_hex(from_index(index)), "TWO")>> ELSE <<>>)
         \o penguins_from(b, index + 1)

\* Board.get_penguins
get_penguins(b) == penguins_from(b, 0)

\* m1 < m2 for two masks read as integers: their highest differing bit is in m2.
mask_less(m1, m2) ==
    /\ m1 # m2
    /\ LET differing == (m1 \ m2) \cup (m2 \ m1)
       IN  (CHOOSE i \in differing : \A j \in differing : j <= i) \in m2

\* max(self.fish_0, ..., self.fish_4) of get_most_fish: the greatest mask integer.
max_fish(b) ==
    LET masks == {b.fish_0, b.fish_1, b.fish_2, b.fish_3, b.fish_4}
    IN  CHOOSE m \in masks : \A n \in masks : ~mask_less(m, n)

\* The loop of get_most_fish, from cell i on.
RECURSIVE most_fish_from(_, _)
most_fish_from(b, i) ==
    IF i >= 64 THEN <<>>
    ELSE (IF \/ (i \in b.fish_0 /\ b.fish_0 = max_fish(b))
             \/ (i \in b.fish_1 /\ b.fish_1 = max_fish(b))
             \/ (i \in b.fish_2 /\ b.fish_2 = max_fish(b))
             \/ (i \in b.fish_3 /\ b.fish_3 = max_fish(b))
             \/ (i \in b.fish_4 /\ b.fish_4 = max_fish(b))
          THEN <<Field(to_hex(from_index(i)), None,
                       get_fish(b, Get(to_index(to_cartesian(to_hex(from_index(i)))))))>>
          ELSE <<>>)
         \o most_fish_from(b, i + 1)

\* Board.get_most_fish
get_most_fish(b) == most_fish_from(b, 0)

\* Variant of the get_field call that writes the field it read back into the
\* board with set_field.
GetFieldMarking ==
    \E index \in QueryCells :
        /\ call = NoCall
        /\ call' = [op |-> "get_field", arg |-> <<index>>, err |-> "none",
                    ret |-> <<get_field(board, index)>>]
        /\ board' = set_field(board, get_field(board, index))
        /\ UNCHANGED <<fishes, gs, pending, client, net>>

\* board.get_field(index)
GetField ==
    \E index \in QueryCells :
        /\ call = NoCall
        /\ call' = [op |-> "get_field", arg |-> <<index>>, err |-> "none",
                    ret |-> <<get_field(board, index)>>]
        /\ UNCHANGED <<board, fishes, gs, pending, client, net>>

\* board.get_fish(index)
GetFish ==
    \E index \in QueryCells :
        /\ call = NoCall
        /\ call' = [op |-> "get_fish", arg |-> <<index>>, err |-> "none",
                    ret |-> <<get_fish(board, index)>>]
        /\ UNCHANGED <<board, fishes, gs, pending, client, net>>

\* board.get_penguin(coordinate): the returned Optional[Penguin] is ret.
GetPenguin ==
    \E index \in QueryCells :
        /\ call = NoCall
        /\ call' = [op |-> "get_penguin", arg |-> <<to_hex(from_index(index))>>, err |-> "none",
                    ret |-> get_penguin(board, to_hex(from_index(index)))]
        /\ UNCHANGED <<board, fishes, gs, pending, client, net>>

\* board.is_occupied(index)
IsOccupied ==
    \E index \in QueryCells :
        /\ call = NoCall
        /\ call' = [op |-> "is_occupied", arg |-> <<index>>, err |-> "none",
                    ret |-> <<is_occupied(board, index)>>]
        /\ UNCHANGED <<board, fishes, gs, pending, client, net>>

\* board.contains_field(index)
ContainsField ==
    \E index \in QueryCells :
        /\ call = NoCall
        /\ call' = [op |-> "contains_field", arg |-> <<index>>, err |-> "none",
                    ret |-> <<contains_field(board, index)>>]
        /\ UNCHANGED <<board, fishes, gs, pending, client, net>>

\* board.is_team(team, index)
IsTeam ==
    \E team \in TeamEnum, index \in QueryCells :
        /\ call = NoCall
        /\ call' = [op |-> "is_team", arg |-> <<team, index>>, err |-> "none",
                    ret |-> <<is_team(board, team, index)>>]
        /\ UNCHANGED <<board, fishes, gs, pending, client, net>>

\* board.get_teams_penguins(team)
GetTeamsPenguins ==
    \E team \in TeamEnum :
        /\ call = NoCall
        /\ call' = [op |-> "get_teams_penguins", arg |-> <<team>>, err |-> "none",
                    ret |-> get_teams_penguins(board, team)]
        /\ UNCHANGED <<board, fishes, gs, pending, client, net>>

\* board.get_penguins()
GetPenguins ==
    /\ call = NoCall
    /\ call' = [op |-> "get_penguins", arg |-> <<>>, err |-> "none",
                ret |-> get_penguins(board)]
    /\ UNCHANGED <<board, fishes, gs, pending, client, net>>

\* board.get_empty_fields()
GetEmptyFields ==
    /\ call = NoCall
    /\ call' = [op |-> "get_empty_fields", arg |-> <<>>, err |-> "none",
                ret |-> get_empty_fields(board)]
    /\ UNCHANGED <<board, fishes, gs, pending, client, net>>

\* board.get_most_fish()
GetMostFish ==
    /\ call = NoCall
    /\ call' = [op |-> "get_most_fish", arg |-> <<>>, err |-> "none",
                ret |-> get_most_fish(board)]
    /\ UNCHANGED <<board, fishes, gs, pending, client, net>>

NextQuery ==
    \/ GetField
    \/ GetFish
    \/ GetPenguin
    \/ IsOccupied
    \/ ContainsField
    \/ IsTeam
    \/ PossibleMovesFrom
    \/ GetTeamsPenguins
    \/ GetPenguins
    \/ GetEmptyFields
    \/ GetMostFish
    \/ Return

SpecQuery == Init /\ [][NextQuery]_vars

(***************************************************************************)
(* The game client (game_client.py).  The server's packets are inputs of   *)
(* the loop: a packet is modelled by its kind, and the server sends at     *)
(* most MaxPackets of them.  log lists the handler callbacks invoked and   *)
(* the messages sent, in order; history is AbstractGameClient.history.     *)
(* pc is "constructed" before start(), "loop" while _client_loop runs,     *)
(* "done" once the while loop has ended, "raised" if an exception left it. *)
(***************************************************************************)
MaxPackets == 3

PacketKinds == {"Joined", "Left", "MoveRequest", "State", "Result", "Room"}

Rooms == {"r1", "r2"}

\* What the handler's calculate_move can return: nothing, a placement, or a
\* slide (from the cell with coordinates 0, 0).
MoveResponses ==
    {None,
     Some(Move(None, HexCoordinate(2, 0), "ONE")),
     Some(Move(Some(HexCoordinate(0, 0)), HexCoordinate(4, 0), "TWO"))}

\* GameClient.__init__: the interface is connected, the loop not yet started.
GameClient(survive) ==
    [NoClient EXCEPT !.pc = "constructed", !.connected = TRUE, !.survive = survive]

\* XMLProtocolInterface.disconnect: closes the connection.
disconnect(c) == [c EXCEPT !.connected = FALSE]

\* GameClient.stop
stop(c) ==
    [(IF c.connected THEN disconnect(c) ELSE c) EXCEPT !.running = FALSE,
                                                       !.stop_called = TRUE]

\* Variant of _handle_left that stops the client whatever the mode.
handle_left_always_stops(c) == stop(c)

\* GameClient._handle_left
handle_left(c) == IF ~c.survive THEN stop(c) ELSE disconnect(c)

\* XMLProtocolInterface._send: hands one packet to the transport.
send(c, packet) == [c EXCEPT !.sent = Append(@, packet)]

\* GameClient.send_message_to_room
send_message_to_room(c, room_id, message) ==
    send(c, [room_id |-> room_id, data |-> message])

\* The Data object built for a move: To from the destination, From from the
\* origin if the move has one.
move_data(move_response) ==
    [class_value |-> "move",
     from_value |-> IF move_response.from_value # None
                    THEN Some([x |-> Get(move_response.from_value).x,
                               y |-> Get(move_response.from_value).y])
                    ELSE None,
     to |-> [x |-> move_response.to_value.x, y |-> move_response.to_value.y]]

\* Variant of the MoveRequest branch that answers without the origin.
on_move_request_drops_origin(c, room_id, move_response) ==
    LET called == [c EXCEPT !.log = Append(@, "calculate_move")]
    IN  IF move_response # None
        THEN send_message_to_room(called, room_id,
                 [move_data(Get(move_response)) EXCEPT !.from_value = None])
        ELSE called

\* The MoveRequest branch of _on_object: calculate_move is called, and what
\* it returns, if it is a move, is sent to the room of the request.
on_move_request(c, room_id, move_response) ==
    LET called == [c EXCEPT !.log = Append(@, "calculate_move")]
    IN  IF move_response # None
        THEN send_message_to_room(called, room_id, move_data(Get(move_response)))
        ELSE called

\* GameClient._on_object for a packet of the given kind and room;
\* move_response is what the handler's calculate_move returns (None or a
\* Move).  Decoding a State raises TypeError: _convertBoard calls Field with
\* two arguments and Board with one.
on_object(c, kind, room_id, move_response) ==
    CASE kind = "Joined" -> [c EXCEPT !.log = Append(@, "on_game_joined")]
      [] kind = "Left" -> [c EXCEPT !.log = Append(@, "on_game_left")]
      [] kind = "MoveRequest" -> on_move_request(c, room_id, move_response)
      [] kind = "State" -> [c EXCEPT !.pc = "raised", !.err = "TypeError"]
      [] kind = "Result" -> [c EXCEPT !.history = Append(@, "Result"),
                                      !.log = Append(@, "on_game_over")]
      [] kind = "Room" -> [c EXCEPT !.log = Append(@, "on_room_message")]
      [] OTHER -> c

\* GameClient._handle_other
handle_other(c, kind, room_id, move_response) ==
    on_object(c, kind, room_id, move_response)

InitClient ==
    /\ board = EmptyBoard
    /\ fishes = Fishes(0, 0)
    /\ gs = None
    /\ call = NoCall
    /\ pending = <<>>
    /\ client \in {GameClient(survive) : survive \in BOOLEAN}
    /\ net = NoSocket

\* GameClient.start: sets _running and enters _client_loop.
Start ==
    /\ client.pc = "constructed"
    /\ client' = [client EXCEPT !.running = TRUE, !.pc = "loop"]
    /\ UNCHANGED <<board, fishes, gs, call, pending, net>>

\* A loop iteration whose _receive returns nothing: the read timed out, or
\* the connection was reset and NetworkSocket.receive closed the socket.
ReceiveNone ==
    \E reset \in BOOLEAN :
        /\ client.pc = "loop" /\ client.running /\ client.connected
        /\ client' = IF reset THEN [client EXCEPT !.connected = FALSE] ELSE client
        /\ UNCHANGED <<board, fishes, gs, call, pending, net>>

\* A loop iteration that receives a Left packet.
ReceiveLeft ==
    /\ client.pc = "loop" /\ client.running /\ client.connected
    /\ client.received < MaxPackets
    /\ \E room_id \in Rooms :
          client' = [handle_left(client) EXCEPT
                        !.received = @ + 1, !.left_received = TRUE,
                        !.last = [kind |-> "Left", room_id |-> room_id,
                                  move_response |-> None]]
    /\ UNCHANGED <<board, fishes, gs, call, pending, net>>

\* A loop iteration that receives any other ProtocolPacket.
ReceiveOther ==
    \E kind \in PacketKinds \ {"Left"}, room_id \in Rooms, move_response \in MoveResponses :
        /\ client.pc = "loop" /\ client.running /\ client.connected
        /\ client.received < MaxPackets
        /\ kind # "MoveRequest" => move_response = None
        /\ client' = [handle_other(client, kind, room_id, move_response) EXCEPT
                         !.received = @ + 1,
                         !.last = [kind |-> kind, room_id |-> room_id,
                                   move_response |-> move_response]]
        /\ UNCHANGED <<board, fishes, gs, call, pending, net>>

\* A loop iteration that receives an object that is no ProtocolPacket.
ReceiveUnknown ==
    /\ client.pc = "loop" /\ client.running /\ client.connected
    /\ client.received < MaxPackets
    /\ client' = [client EXCEPT !.received = @ + 1, !.pc = "raised",
                                !.err = "NotImplementedError",
                                !.last = [NoPacket EXCEPT !.kind = "unknown"]]
    /\ UNCHANGED <<board, fishes, gs, call, pending, net>>

\* A loop iteration without a connection: the handler's while_disconnected is
\* called and what it returns (wd_ret) is dropped.
WhileDisconnected ==
    \E ret \in {"True", "False", "None"} :
        /\ client.pc = "loop" /\ client.running /\ ~client.connected
        /\ client' = [client EXCEPT !.wd_ret = ret, !.wd_tick = 1 - @]
        /\ UNCHANGED <<board, fishes, gs, call, pending, net>>

\* The while condition is false: _client_loop ends.
LoopExit ==
    /\ client.pc = "loop" /\ ~client.running
    /\ client' = [client EXCEPT !.pc = "done"]
    /\ UNCHANGED <<board, fishes, gs, call, pending, net>>

\* stop() called on the running client (by the handler or its owner).
Stop ==
    /\ client.pc = "loop"
    /\ client' = stop(client)
    /\ UNCHANGED <<board, fishes, gs, call, pending, net>>

NextClient ==
    \/ Start
    \/ ReceiveNone
    \/ ReceiveLeft
    \/ ReceiveOther
    \/ ReceiveUnknown
    \/ WhileDisconnected
    \/ LoopExit
    \/ Stop

\* The loop thread keeps running: it calls while_disconnected again and again
\* while there is no connection, and leaves the loop once _running is false.
SpecClient ==
    InitClient /\ [][NextClient]_vars /\ WF_vars(WhileDisconnected) /\ WF_vars(LoopExit)

(***************************************************************************)
(* The socket.  A byte string is a sequence of characters, of which the    *)
(* model tells apart "<", "/", ">", the word room (written "r"), the line  *)
(* feed ("n") and payload letters.  receive looks for the pattern          *)
(*     <(room[\s\S]+?</room>|.*?/>)                                        *)
(* in the buffer each time recv has returned bytes.                        *)
(***************************************************************************)
MaxMessages == 2

RecvSize == 16129

Payloads == {"a", "b"}

\* The two framed forms the pattern finds: <room ...>p</room> and <p/>.
RoomMessage(p) == <<"<", "r", p, "<", "/", "r", ">">>

EmptyElement(p) == <<"<", p, "/", ">">>

Frames == {RoomMessage(p) : p \in Payloads} \cup {EmptyElement(p) : p \in Payloads}

\* The message sequences a peer writes: 1 to MaxMessages frames.
Streams == UNION {[1 .. n -> Frames] : n \in 1 .. MaxMessages}

RECURSIVE Flatten(_)
Flatten(seqs) == IF seqs = <<>> THEN <<>> ELSE Head(seqs) \o Flatten(Tail(seqs))

\* buf has the characters of sub at position i.
has_at(buf, i, sub) ==
    /\ i + Len(sub) - 1 <= Len(buf)
    /\ SubSeq(buf, i, i + Len(sub) - 1) = sub

\* First branch of the pattern at position i: room, at least one character
\* (as few as possible), </room>.  The index of the last character matched,
\* 0 if the branch does not match.
match_room(buf, i) ==
    IF ~has_at(buf, i, <<"<", "r">>) THEN 0
    ELSE LET ends == {e \in (i + 3) .. Len(buf) : has_at(buf, e, <<"<", "/", "r", ">">>)}
         IN  IF ends = {} THEN 0
             ELSE (CHOOSE e \in ends : \A f \in ends : e <= f) + 3

\* Second branch at position i: as few characters other than line feeds as
\* possible, then />.
match_empty(buf, i) ==
    IF ~has_at(buf, i, <<"<">>) THEN 0
    ELSE LET ends == {e \in (i + 1) .. Len(buf) :
                         /\ has_at(buf, e, <<"/", ">">>)
                         /\ \A j \in (i + 1) .. (e - 1) : buf[j] # "n"}
         IN  IF ends = {} THEN 0
             ELSE (CHOOSE e \in ends : \A f \in ends : e <= f) + 1

\* The pattern at position i: the first branch that matches.
match_at(buf, i) ==
    IF match_room(buf, i) # 0 THEN match_room(buf, i) ELSE match_empty(buf, i)

\* regex.search(buffer).group(): the leftmost match, None if there is none.
regex_search(buf) ==
    LET starts == {i \in 1 .. Len(buf) : match_at(buf, i) # 0}
    IN  IF starts = {} THEN None
        ELSE LET i == CHOOSE i \in starts : \A j \in starts : i <= j
             IN  Some(SubSeq(buf, i, match_at(buf, i)))

\* bytes.replace(sub, b""): every occurrence of sub is removed, left to right.
RECURSIVE replace_all(_, _)
replace_all(buf, sub) ==
    IF Len(buf) < Len(sub) THEN buf
    ELSE IF has_at(buf, 1, sub)
         THEN replace_all(SubSeq(buf, Len(sub) + 1, Len(buf)), sub)
         ELSE <<Head(buf)>> \o replace_all(Tail(buf), sub)

\* NetworkSocket.connect on a fresh socket, the peer about to write a stream.
InitSocket ==
    /\ board = EmptyBoard
    /\ fishes = Fishes(0, 0)
    /\ gs = None
    /\ call = NoCall
    /\ pending = <<>>
    /\ client = NoClient
    /\ \E stream \in Streams :
          net = [NoSocket EXCEPT !.connected = TRUE, !.stream = stream,
                                 !.wire = Flatten(stream)]

\* One pass of the loop of receive in which recv returns bytes: they are
\* added to the buffer; if the pattern is found its match is taken out of
\* the buffer and returned, otherwise the loop goes on.
RecvChunk ==
    \E n \in 1 .. Len(net.wire) :
        /\ net.connected
        /\ n <= RecvSize
        /\ LET chunk == SubSeq(net.wire, 1, n)
               buffer == net.buffer \o chunk
               found == regex_search(buffer)
           IN  net' = IF found # None
                      THEN [net EXCEPT !.wire = SubSeq(@, n + 1, Len(@)),
                                       !.chunk = chunk,
                                       !.buffer = replace_all(buffer, Get(found)),
                                       !.pc = "idle",
                                       !.ret = found,
                                       !.returned = Append(@, Get(found)),
                                       !.tick = 1 - @]
                      ELSE [net EXCEPT !.wire = SubSeq(@, n + 1, Len(@)),
                                       !.chunk = chunk,
                                       !.buffer = buffer,
                                       !.pc = "recv",
                                       !.tick = 1 - @]
        /\ UNCHANGED <<board, fishes, gs, call, pending, client>>

\* A pass in which recv times out (or returns no bytes): receive returns None.
RecvTimeout ==
    /\ net.connected
    /\ net' = [net EXCEPT !.chunk = <<>>, !.pc = "idle", !.ret = None, !.tick = 1 - @]
    /\ UNCHANGED <<board, fishes, gs, call, pending, client>>

\* A pass in which recv raises ConnectionResetError: close(), return None.
RecvReset ==
    /\ net.connected
    /\ net' = [net EXCEPT !.connected = FALSE, !.chunk = <<>>, !.pc = "idle",
                          !.ret = None, !.tick = 1 - @]
    /\ UNCHANGED <<board, fishes, gs, call, pending, client>>

NextSocket ==
    \/ RecvChunk
    \/ RecvTimeout
    \/ RecvReset

SpecSocket == InitSocket /\ [][NextSocket]_vars

(***************************************************************************)
(* Vocabulary of the properties.                                           *)
(***************************************************************************)
\* The hex coordinate k steps of direction d away from hex coordinate h.
Along(h, d, k) == HexCoordinate(h.x + k * d.d_x, h.y + k * d.d_y)

\* A hex coordinate is on the board iff it is the coordinate of a cell.
OnBoard(h) == \E i \in Cells : to_hex(from_index(i)) = h

CellOf(h) == CHOOSE i \in Cells : to_hex(from_index(i)) = h

\* Cell h can be slid over or landed on: on the board, no penguin, fish > 0.
Passable(b, h) ==
    /\ OnBoard(h)
    /\ CellOf(h) \notin (b.one \cup b.two)
    /\ get_fish(b, CellOf(h)) > 0

\* The number of passable cells at the start of the ray from h in direction d.
RayLength(b, h, d) ==
    CHOOSE n \in 0 .. 8 :
        /\ \A j \in 1 .. n : Passable(b, Along(h, d, j))
        /\ ~Passable(b, Along(h, d, n + 1))

PenguinCount(b, team) ==
    Cardinality(IF team = "ONE" THEN b.one ELSE b.two)

\* Some element of the possible_moves of g equals m structurally.
StructurallyIn(g, m) ==
    \E k \in 1 .. Len(g.possible_moves) : same_move(g.possible_moves[k], m)

\* The last call constructed the GameState held in gs from the board.
JustConstructed ==
    /\ gs # None
    /\ call.op \in {"GameState", "perform_move"}
    /\ call.err = "none"

\* The slide moves of a team, per penguin in scan order (attributes only).
RECURSIVE SlidesFrom(_, _, _)
SlidesFrom(b, team, index) ==
    IF index >= 64 THEN <<>>
    ELSE (IF is_team(b, team, index) THEN possible_moves_from(b, index, team) ELSE <<>>)
         \o SlidesFrom(b, team, index + 1)

\* The team has a legal move under the legal-move policy: a placement while
\* it has fewer than 4 penguins, a slide once it has 4.
HasLegalMove(b, team) ==
    IF PenguinCount(b, team) < PenguinLimit
    THEN \E i \in Cells : i \notin (b.one \cup b.two) /\ get_fish(b, i) = 1
    ELSE SlidesFrom(b, team, 0) # <<>>

ScenarioA == Board({0}, {}, {}, {1, 2}, {}, {}, {})

(***************************************************************************)
(* C1: perform_move with a move that equals no element of possible_moves   *)
(* fails with the invalid-move error and leaves the GameState unchanged:   *)
(* same turn, last move and possible_moves, same board masks, same fish    *)
(* tallies.                                                                *)
(***************************************************************************)
C1_InvalidMoveRejected ==
    [][ ( /\ call.op = "none"
          /\ call'.op = "perform_move"
          /\ ~StructurallyIn(Get(gs), call'.arg[1]) )
        => ( /\ call'.err = "InvalidMove"
             /\ gs' = gs
             /\ board' = board
             /\ fishes' = fishes ) ]_vars

C1_Witness ==
    /\ call.op = "perform_move"
    /\ call.err = "InvalidMove"
    /\ Get(gs).possible_moves # <<>>
    /\ ~StructurallyIn(Get(gs), call.arg[1])

(***************************************************************************)
(* C2: move validity is structural: is_valid_move(m) is true, and          *)
(* perform_move(m) is not rejected as invalid, for every Move m with the   *)
(* same origin, destination and team as some element of possible_moves.    *)
(***************************************************************************)
C2_StructuralValidity ==
    /\ (call.op = "is_valid_move" /\ StructurallyIn(Get(gs), call.arg[1]))
          => call.ret = <<TRUE>>
    /\ (call.op = "perform_move" /\ call.err = "InvalidMove")
          => ~StructurallyIn(Get(gs), call.arg[1])

(***************************************************************************)
(* C3: for every move m of possible_moves, perform_move(m) succeeds and    *)
(* returns a GameState with turn + 1, the same start team and last move m. *)
(***************************************************************************)
C3_PerformMoveAdvances ==
    [][ ( /\ call.op = "none"
          /\ call'.op = "perform_move"
          /\ \E k \in 1 .. Len(Get(gs).possible_moves) :
                Get(gs).possible_moves[k] = call'.arg[1] )
        => ( /\ call'.err = "none"
             /\ Get(gs').turn = Get(gs).turn + 1
             /\ Get(gs').start_team = Get(gs).start_team
             /\ Get(gs').last_move = Some(call'.arg[1]) ) ]_vars

(***************************************************************************)
(* C4: the current team of a GameState is the nominal team of its turn     *)
(* (start_team on even turns, its opponent on odd turns) if the nominal    *)
(* team has a legal move, and the opponent of the nominal team otherwise.  *)
(***************************************************************************)
C4_CurrentTeam ==
    JustConstructed =>
        LET g == Get(gs)
            nominal == IF g.turn % 2 = 0 THEN g.start_team ELSE opponent(g.start_team)
        IN  g.current_team =
                IF HasLegalMove(board, nominal) THEN nominal ELSE opponent(nominal)

C4_Witness ==
    /\ JustConstructed
    /\ LET g == Get(gs)
           nominal == IF g.turn % 2 = 0 THEN g.start_team ELSE opponent(g.start_team)
       IN  /\ ~HasLegalMove(board, nominal)
           /\ g.current_team = opponent(nominal)
           /\ g.turn = 1

(***************************************************************************)
(* C5: when the team to move has fewer than 4 penguins, possible_moves     *)
(* holds exactly one placement move (no origin, team = the team to move)   *)
(* for every cell without penguin and with fish count 1, and nothing else. *)
(***************************************************************************)
C5_PlacementsOnly ==
    (JustConstructed /\ PenguinCount(board, Get(gs).current_team) < PenguinLimit) =>
        LET g == Get(gs)
            pm == g.possible_moves
            target == {i \in Cells : i \notin (board.one \cup board.two)
                                     /\ get_fish(board, i) = 1}
        IN  /\ \A k \in 1 .. Len(pm) :
                  /\ pm[k].from_value = None
                  /\ pm[k].team = g.current_team
                  /\ OnBoard(pm[k].to_value)
                  /\ CellOf(pm[k].to_value) \in target
            /\ \A i \in target :
                  Cardinality({k \in 1 .. Len(pm) : pm[k].to_value = to_hex(from_index(i))}) = 1

\* Scenario B: three penguins placed, one of them able to slide.
C5_Witness ==
    /\ JustConstructed
    /\ PenguinCount(board, Get(gs).current_team) = 3
    /\ SlidesFrom(board, Get(gs).current_team, 0) # <<>>
    /\ Get(gs).possible_moves # <<>>

(***************************************************************************)
(* C6: when the team to move has 4 penguins, constructing the GameState    *)
(* succeeds and possible_moves is exactly the slide moves of               *)
(* possible_moves_from over that team's penguins.                          *)
(***************************************************************************)
C6_SlidesOnceFourPlaced ==
    ( /\ call.op = "GameState"
      /\ PenguinCount(board, current_team_by_turn(call.arg[1], call.arg[2])) = PenguinLimit
      /\ HasLegalMove(board, current_team_by_turn(call.arg[1], call.arg[2])) )
    => ( /\ call.err = "none"
         /\ gs # None
         /\ LET pm == Get(gs).possible_moves
                slides == SlidesFrom(board, current_team_by_turn(call.arg[1], call.arg[2]), 0)
            IN  /\ Len(pm) = Len(slides)
                /\ \A k \in 1 .. Len(pm) : same_move(pm[k], slides[k]) )

(***************************************************************************)
(* C7: every move of possible_moves_from(index, team) starts at the cell   *)
(* index holding a penguin of team and lands k >= 1 steps of one of the    *)
(* six directions away, every cell of the ray up to and including the      *)
(* landing cell being on the board, unoccupied and with fish > 0.          *)
(***************************************************************************)
C7_MoveGenerationSound ==
    (call.op = "possible_moves_from") =>
        LET index == call.arg[1]
            team == call.arg[2]
            origin == to_hex(from_index(index))
        IN  \A n \in 1 .. Len(call.ret) :
                LET m == call.ret[n]
                IN  /\ m.from_value = Some(origin)
                    /\ m.team = team
                    /\ index \in (IF team = "ONE" THEN board.one ELSE board.two)
                    /\ \E d \in 1 .. Len(directions), k \in 1 .. 8 :
                          /\ m.to_value = Along(origin, directions[d], k)
                          /\ \A j \in 1 .. k :
                                Passable(board, Along(origin, directions[d], j))

\* A generated slide of at least two steps that ends next to the board edge.
C7_Witness ==
    /\ call.op = "possible_moves_from"
    /\ \E n \in 1 .. Len(call.ret), d \in 1 .. Len(directions), k \in 2 .. 8 :
          /\ call.ret[n].to_value = Along(Get(call.ret[n].from_value), directions[d], k)
          /\ ~OnBoard(Along(Get(call.ret[n].from_value), directions[d], k + 1))

(***************************************************************************)
(* C8: get_directive_moves(index, direction, team) returns, by increasing  *)
(* distance, one move for every cell of the ray up to but excluding the    *)
(* first cell that is off the board, occupied or without fish, and no move *)
(* when the cell at index holds no penguin of team.                        *)
(***************************************************************************)
C8_DirectiveMovesExact ==
    (call.op = "get_directive_moves") =>
        LET index == call.arg[1]
            d == call.arg[2]
            team == call.arg[3]
            origin == to_hex(from_index(index))
            held == index \in (IF team = "ONE" THEN board.one ELSE board.two)
            n == IF held THEN RayLength(board, origin, d) ELSE 0
        IN  /\ Len(call.ret) = n
            /\ \A j \in 1 .. n :
                  /\ call.ret[j].from_value = Some(origin)
                  /\ call.ret[j].to_value = Along(origin, d, j)
                  /\ call.ret[j].team = team

\* A ray of at least two moves that is stopped by a penguin.
C8_Witness ==
    /\ call.op = "get_directive_moves"
    /\ Len(call.ret) >= 2
    /\ LET blocker == Along(to_hex(from_index(call.arg[1])), call.arg[2], Len(call.ret) + 1)
       IN  OnBoard(blocker) /\ CellOf(blocker) \in (board.one \cup board.two)

(***************************************************************************)
(* C9: on the board with a team-ONE penguin at cell 0, fish-1 bits at      *)
(* cells 1 and 2 and no other bit, the moves of possible_moves_from(0,     *)
(* ONE) along direction (2, 0) are exactly two, landing at cell 1 and then *)
(* at cell 2.                                                              *)
(***************************************************************************)
C9_ScenarioA ==
    LET origin == to_hex(from_index(0))
        expected == << [Move(Some(origin), to_hex(from_index(1)), "ONE") EXCEPT !.id = 0],
                       [Move(Some(origin), to_hex(from_index(2)), "ONE") EXCEPT !.id = 0] >>
        alongRight(m) == m.to_value.y = origin.y /\ m.to_value.x > origin.x
    IN  /\ (board = ScenarioA /\ call.op = "possible_moves_from" /\ call.arg = <<0, "ONE">>)
            => SelectSeq(call.ret, alongRight) = expected
        /\ (board = ScenarioA /\ call.op = "get_directive_moves"
                /\ call.arg = <<0, Vector(2, 0), "ONE">>)
            => call.ret = expected

C9_Witness ==
    /\ board = ScenarioA
    /\ call.op = "possible_moves_from"
    /\ call.arg = <<0, "ONE">>
    /\ Len(call.ret) = 2

(***************************************************************************)
(* C10: Board.move applied to a slide move of team T yields a board in     *)
(* which T's bit at the origin is cleared and T's bit at the destination   *)
(* is set, T's other bits and the other team's mask being unchanged.       *)
(***************************************************************************)
C10_MoveSlidesPenguin ==
    [][ ( /\ call.op = "none"
          /\ call'.op = "move"
          /\ call'.arg[1].from_value # None
          /\ \E n \in 1 .. Len(SlidesFrom(board, call'.arg[1].team, 0)) :
                same_move(SlidesFrom(board, call'.arg[1].team, 0)[n], call'.arg[1]) )
        => LET m == call'.arg[1]
               o == CellOf(Get(m.from_value))
               t == CellOf(m.to_value)
               result == Get(call'.ret)
           IN  /\ call'.err = "none"
               /\ IF m.team = "ONE"
                  THEN result.one = (board.one \ {o}) \cup {t} /\ result.two = board.two
                  ELSE result.two = (board.two \ {o}) \cup {t} /\ result.one = board.one ]_vars

(***************************************************************************)
(* C11: Board.move applied to a placement move (no origin) of team T       *)
(* completes without error, and the returned board differs from the input  *)
(* board only in that T's bit at the destination is set.                   *)
(***************************************************************************)
C11_PlacementSetsDestination ==
    [][ ( /\ call.op = "none"
          /\ call'.op = "move"
          /\ call'.arg[1].from_value = None )
        => LET m == call'.arg[1]
               t == CellOf(m.to_value)
           IN  /\ call'.err = "none"
               /\ Get(call'.ret) = IF m.team = "ONE"
                                   THEN [board EXCEPT !.one = @ \cup {t}]
                                   ELSE [board EXCEPT !.two = @ \cup {t}] ]_vars

C14_MoveLeavesReceiver ==
    [][ ( /\ call.op = "none"
          /\ call'.op = "move"
          /\ call'.err = "none" )
        => board' = board ]_vars

(***************************************************************************)
(* C15: starting from the all-zero board, after one set_field call for     *)
(* each of the 64 cells (each field carrying a penguin of one team at its  *)
(* own coordinate, or a fish count in 0..4), every cell's bit is set in    *)
(* exactly one of the seven masks.                                         *)
(***************************************************************************)
MaskNames == {"one", "two", "fish_0", "fish_1", "fish_2", "fish_3", "fish_4"}

MasksHolding(b, i) == {n \in MaskNames : i \in b[n]}

C15_ExactlyOneMask ==
    (call.op = "set_field" /\ pending = <<>>)
        => \A i \in Cells : Cardinality(MasksHolding(board, i)) = 1

C15_Witness ==
    /\ call.op = "set_field"
    /\ pending = <<>>
    /\ \A n \in MaskNames : board[n] # {}
    /\ Cardinality(board.one) = PenguinLimit

(***************************************************************************)
(* C16: set_field called with a field that has no penguin and a fish count *)
(* outside 0..4 raises the invalid-fish exception and leaves all masks as  *)
(* they were.                                                              *)
(***************************************************************************)
C16_InvalidFishRejected ==
    [][ ( /\ call'.op = "set_field"
          /\ call' # call
          /\ call'.arg[1].penguin = None
          /\ call'.arg[1].fish \notin 0 .. 4 )
        => /\ call'.err = "Exception"
           /\ board' = board ]_vars

C16_Witness ==
    /\ call.op = "set_field"
    /\ call.err = "Exception"
    /\ call.arg[1].fish < 0
    /\ board.one # {}
    /\ board.fish_4 # {}

(***************************************************************************)
(* C17: index -> cartesian -> index returns the original index for every   *)
(* index in 0..63, and the two conversions are mutually inverse between    *)
(* 0..63 and the coordinates (x, y) with x, y in 0..7, index = y * 8 + x.  *)
(***************************************************************************)
InBoard(c) == c.x \in 0 .. 7 /\ c.y \in 0 .. 7

C17_IndexRoundTrip ==
    /\ (call.op = "from_index" /\ call.arg[1] \in 0 .. 63)
          => /\ call.err = "none"
             /\ InBoard(Get(call.ret))
             /\ call.arg[1] = Get(call.ret).y * 8 + Get(call.ret).x
             /\ to_index(Get(call.ret)) = Some(call.arg[1])
    /\ (call.op = "to_index" /\ InBoard(call.arg[1]))
          => /\ call.ret = Some(call.arg[1].y * 8 + call.arg[1].x)
             /\ ~from_index_raises(Get(call.ret))
             /\ from_index(Get(call.ret)) = call.arg[1]

C17_Witness ==
    /\ call.op = "from_index"
    /\ call.arg[1] = 58
    /\ call.ret = <<CartesianCoordinate(2, 7)>>

(***************************************************************************)
(* C18: for every cartesian coordinate c with x, y in 0..7, to_hex gives   *)
(* (2x + (y mod 2), y) and converting that back with to_cartesian gives c. *)
(***************************************************************************)
C18_HexRoundTrip ==
    (call.op = "to_hex" /\ InBoard(call.arg[1]))
        => /\ Get(call.ret) = HexCoordinate(2 * call.arg[1].x + (call.arg[1].y % 2),
                                            call.arg[1].y)
           /\ to_cartesian(Get(call.ret)) = call.arg[1]

C18_Witness ==
    /\ call.op = "to_hex"
    /\ call.arg[1] = CartesianCoordinate(7, 5)
    /\ call.ret = <<HexCoordinate(15, 5)>>
    /\ to_cartesian(HexCoordinate(15, 5)) = call.arg[1]

(***************************************************************************)
(* C19: out-of-range inputs are rejected, never clamped: to_index returns  *)
(* None whenever x or y is outside 0..7 and an index in 0..63 otherwise;   *)
(* from_index raises IndexError for every index outside 0..63, negative    *)
(* ones included.                                                          *)
(***************************************************************************)
C19_OutOfRangeRejected ==
    /\ call.op = "to_index"
          => IF InBoard(call.arg[1])
             THEN call.ret # None /\ Get(call.ret) \in 0 .. 63
             ELSE call.ret = None
    /\ call.op = "from_index"
          => IF call.arg[1] \in 0 .. 63
             THEN call.err = "none" /\ call.ret # <<>>
             ELSE call.err = "IndexError" /\ call.ret = <<>>

C19_Witness ==
    /\ call.op = "from_index"
    /\ call.arg[1] < 0
    /\ call.err = "IndexError"

(***************************************************************************)
(* C20: is_valid(index) is true exactly when 0 <= index < 64; it is false  *)
(* for negative indexes.                                                   *)
(***************************************************************************)
C20_IsValidRange ==
    call.op = "is_valid"
        => (Get(call.ret) <=> (0 <= call.arg[1] /\ call.arg[1] < BoardCells))

(***************************************************************************)
(* C21: for the board E with all seven masks zero and any board B,         *)
(* E.intersection(B) is empty, E.union(B) is equivalent to B, and          *)
(* E.difference(B) is empty.                                               *)
(***************************************************************************)
C21_EmptyBoardAlgebra ==
    is_empty(board) =>
        /\ call.op = "intersection" => is_empty(Get(call.ret))
        /\ call.op = "union" => equivalence(Get(call.ret), call.arg[1])
        /\ call.op = "difference" => is_empty(Get(call.ret))

C21_Witness ==
    /\ is_empty(board)
    /\ call.op = "difference"
    /\ ~is_empty(call.arg[1])
    /\ call.arg[1].one # {}
    /\ is_empty(Get(call.ret))

(***************************************************************************)
(* C22: get_bit_coordinate reports an error exactly when the number of     *)
(* bits set across all seven masks (cells 0..63) is zero or greater than   *)
(* one; it never reports an error for a board with exactly one set bit.    *)
(***************************************************************************)
\* The number of bits set across the seven masks of b.
RECURSIVE BitsSetFrom(_, _)
BitsSetFrom(b, k) ==
    IF k > Len(MaskOrder) THEN 0
    ELSE Cardinality(b[MaskOrder[k]] \cap Cells) + BitsSetFrom(b, k + 1)

BitsSet(b) == BitsSetFrom(b, 1)

C22_ErrorIffNotOneBit ==
    call.op = "get_bit_coordinate"
        => (call.err # "none" <=> BitsSet(call.arg[1]) # 1)

(***************************************************************************)
(* C23: when exactly one bit is set across the seven masks of the given    *)
(* board, at cell i, the coordinate get_bit_coordinate returns is the hex  *)
(* coordinate of cell i.                                                   *)
(***************************************************************************)
C23_ReturnsTheSetCell ==
    (call.op = "get_bit_coordinate" /\ BitsSet(call.arg[1]) = 1 /\ call.err = "none")
        => \E k \in 1 .. Len(MaskOrder) :
              call.arg[1][MaskOrder[k]] = {CellOf(Get(call.ret))}

(***************************************************************************)
(* C24: get_most_fish returns exactly the fields whose fish count equals   *)
(* the maximum fish count (0..4) present on any cell of the board, and no  *)
(* field with a smaller fish count.                                        *)
(***************************************************************************)
\* The cells whose bit is set in the fish mask of count k.
FishCells(b, k) ==
    CASE k = 0 -> b.fish_0 [] k = 1 -> b.fish_1 [] k = 2 -> b.fish_2
      [] k = 3 -> b.fish_3 [] OTHER -> b.fish_4

\* The greatest fish count some cell of b holds (b has a fish cell).
MaxFishCount(b) ==
    CHOOSE k \in 0 .. 4 :
        /\ FishCells(b, k) # {}
        /\ \A n \in 0 .. 4 : FishCells(b, n) # {} => n <= k

C24_MostFishIsMaximum ==
    (call.op = "get_most_fish" /\ \E k \in 0 .. 4 : FishCells(board, k) # {})
        => /\ {CellOf(call.ret[j].coordinate) : j \in 1 .. Len(call.ret)}
                 = FishCells(board, MaxFishCount(board))
           /\ \A j \in 1 .. Len(call.ret) : call.ret[j].fish = MaxFishCount(board)

(***************************************************************************)
(* C25: get_empty_fields scans all 64 cells: it returns one Field for      *)
(* every index in 0..63 (63 included) whose bit is set in none of the      *)
(* seven masks, and no other field.                                        *)
(***************************************************************************)
C25_EmptyFieldsComplete ==
    call.op = "get_empty_fields"
        => /\ {CellOf(call.ret[j].coordinate) : j \in 1 .. Len(call.ret)}
                 = {i \in Cells : ~contains_field(board, i)}
           /\ Len(call.ret) = Cardinality({i \in Cells : ~contains_field(board, i)})

(***************************************************************************)
(* C26: the query operations get_field, get_fish, get_penguin,             *)
(* is_occupied, contains_field, is_team, possible_moves_from,              *)
(* get_teams_penguins, get_penguins, get_empty_fields and get_most_fish    *)
(* leave all seven masks of the board unchanged, and the same call made    *)
(* again right after gives the same result.                                *)
(***************************************************************************)
QueryOps ==
    {"get_field", "get_fish", "get_penguin", "is_occupied", "contains_field", "is_team",
     "possible_moves_from", "get_teams_penguins", "get_penguins", "get_empty_fields",
     "get_most_fish"}

\* What the call op(arg) returns on board b.
QueryResult(b, op, arg) ==
    CASE op = "get_field" -> <<get_field(b, arg[1])>>
      [] op = "get_fish" -> <<get_fish(b, arg[1])>>
      [] op = "get_penguin" -> get_penguin(b, arg[1])
      [] op = "is_occupied" -> <<is_occupied(b, arg[1])>>
      [] op = "contains_field" -> <<contains_field(b, arg[1])>>
      [] op = "is_team" -> <<is_team(b, arg[1], arg[2])>>
      [] op = "possible_moves_from" -> possible_moves_from(b, arg[1], arg[2])
      [] op = "get_teams_penguins" -> get_teams_penguins(b, arg[1])
      [] op = "get_penguins" -> get_penguins(b)
      [] op = "get_empty_fields" -> get_empty_fields(b)
      [] OTHER -> get_most_fish(b)

SlideKey(m) ==
    LET dn == CHOOSE p \in (1 .. Len(directions)) \X (1 .. 7) :
                  Along(Get(m.from_value), directions[p[1]], p[2]) = m.to_value
    IN  <<CellOf(Get(m.from_value)), dn[1], dn[2]>>

LexLess(k1, k2) ==
    \/ k1[1] < k2[1]
    \/ k1[1] = k2[1] /\ k1[2] < k2[2]
    \/ k1[1] = k2[1] /\ k1[2] = k2[2] /\ k1[3] < k2[3]

ComesBefore(m1, m2) ==
    IF m1.from_value = None /\ m2.from_value = None
    THEN CellOf(m1.to_value) < CellOf(m2.to_value)
    ELSE IF m1.from_value # None /\ m2.from_value # None
    THEN LexLess(SlideKey(m1), SlideKey(m2))
    ELSE TRUE

C27_PossibleMovesOrdered ==
    gs # None
        => \A j, k \in 1 .. Len(Get(gs).possible_moves) :
              j < k => ComesBefore(Get(gs).possible_moves[j], Get(gs).possible_moves[k])

(***************************************************************************)
(* C28: while the client is not connected, if the handler's                *)
(* while_disconnected returns True the client loop shuts down (the loop    *)
(* eventually terminates); if it returns False the client keeps running.   *)
(***************************************************************************)
C28_ShutdownWhenHandlerSaysSo ==
    /\ (client.pc = "loop" /\ ~client.connected /\ client.wd_ret = "True")
          ~> (client.pc = "done")
    /\ [][ (client'.wd_tick # client.wd_tick /\ client'.wd_ret = "False")
           => client'.running ]_vars

(***************************************************************************)
(* C29: whenever the running client loop receives a Left message from the  *)
(* server, the handler's on_game_left callback is called.                  *)
(***************************************************************************)
C29_LeftCallsOnGameLeft ==
    [][ (~client.left_received /\ client'.left_received)
        => /\ Len(client'.log) = Len(client.log) + 1
           /\ client'.log[Len(client'.log)] = "on_game_left" ]_vars

(***************************************************************************)
(* C30: on receiving a Left message, a client that is not in survive mode  *)
(* disconnects and its loop terminates; a client in survive mode           *)
(* disconnects but its loop keeps running, calling while_disconnected, and *)
(* terminates only after stop() is called.                                 *)
(***************************************************************************)
C30_LeftAndSurviveMode ==
    /\ [][ (~client.left_received /\ client'.left_received)
           => /\ ~client'.connected
              /\ client'.running <=> client.survive ]_vars
    /\ (client.left_received /\ ~client.survive) ~> (client.pc = "done")
    /\ (client.left_received /\ client.survive)
          ~> (client.wd_ret # "none" \/ client.stop_called)
    /\ [](client.left_received /\ client.survive
            => /\ client.pc \in {"loop", "done"}
               /\ client.pc = "done" => client.stop_called)

C30_Witness ==
    /\ client.left_received
    /\ client.survive
    /\ client.wd_ret = "False"
    /\ client.stop_called
    /\ client.pc = "done"

(***************************************************************************)
(* C31: Board.move never changes fish information: the five fish masks of  *)
(* the returned board equal the five fish masks of the board the call was  *)
(* made on, the bit of the destination cell included.                      *)
(***************************************************************************)
FishMasks(b) == <<b.fish_0, b.fish_1, b.fish_2, b.fish_3, b.fish_4>>

C31_MoveKeepsFishMasks ==
    [][ ( /\ call.op = "none"
          /\ call'.op = "move"
          /\ call'.err = "none" )
        => FishMasks(Get(call'.ret)) = FishMasks(board) ]_vars

(***************************************************************************)
(* C32: perform_move of a legal move, made on a state in which each team   *)
(* has at most 4 penguins, produces a successor GameState in which each    *)
(* team has at most 4 penguins on the board (so the bound holds along      *)
(* every sequence of perform_move calls).                                  *)
(***************************************************************************)
WithinPenguinLimit(b) ==
    /\ PenguinCount(b, "ONE") <= PenguinLimit
    /\ PenguinCount(b, "TWO") <= PenguinLimit

C33_RoundIsFloor ==
    (gs # None /\ Get(gs).turn >= 0)
        => LET g == Get(gs)
           IN  /\ 2 * g.round <= g.turn + 1
               /\ g.turn + 1 < 2 * g.round + 2

\* A state built at turn 6 has round 3, and so has one built at turn 5.
C33_Witness ==
    /\ gs # None
    /\ call.op = "GameState"
    /\ Get(gs).turn \in {5, 6}
    /\ Get(gs).round = 3

(***************************************************************************)
(* C34: for every MoveRequest the client receives for a room r, the        *)
(* handler's calculate_move is called exactly once; if it returns a move,  *)
(* exactly one message is sent, to room r, carrying the move's destination *)
(* and, when the move has one, its origin; if it returns no move, nothing  *)
(* is sent.                                                                *)
(***************************************************************************)
RECURSIVE CountOf(_, _)
CountOf(seq, e) ==
    IF seq = <<>> THEN 0
    ELSE (IF Head(seq) = e THEN 1 ELSE 0) + CountOf(Tail(seq), e)

C34_MoveRequestAnswered ==
    [][ ( /\ client'.received = client.received + 1
          /\ client'.last.kind = "MoveRequest" )
        => LET r == client'.last.room_id
               answer == client'.last.move_response
           IN  /\ CountOf(client'.log, "calculate_move")
                     = CountOf(client.log, "calculate_move") + 1
               /\ IF answer = None
                  THEN client'.sent = client.sent
                  ELSE /\ Len(client'.sent) = Len(client.sent) + 1
                       /\ SubSeq(client'.sent, 1, Len(client.sent)) = client.sent
                       /\ LET msg == client'.sent[Len(client'.sent)]
                              m == Get(answer)
                          IN  /\ msg.room_id = r
                              /\ msg.data.class_value = "move"
                              /\ msg.data.to = [x |-> m.to_value.x, y |-> m.to_value.y]
                              /\ (m.from_value = None) = (msg.data.from_value = None)
                              /\ m.from_value # None =>
                                    Get(msg.data.from_value)
                                        = [x |-> Get(m.from_value).x,
                                           y |-> Get(m.from_value).y] ]_vars

\* A second MoveRequest, for room r2, has been answered with the slide from
\* the cell at 0, 0 after a first request was answered.
C34_Witness ==
    /\ client.last.kind = "MoveRequest"
    /\ client.last.room_id = "r2"
    /\ client.last.move_response # None
    /\ Len(client.sent) = 2
    /\ client.sent[2].room_id = "r2"
    /\ client.sent[2].data.from_value = Some([x |-> 0, y |-> 0])

(***************************************************************************)
(* C35: for every State message received, the client appends the decoded   *)
(* GameState to the handler's history and then calls on_update with it:    *)
(* the step that handles the message lengthens history by that one state   *)
(* (earlier states and results keeping their arrival order) and ends with  *)
(* the on_update call.                                                     *)
(***************************************************************************)
C35_StateRecordedThenDelivered ==
    [][ ( /\ client'.received = client.received + 1
          /\ client'.last.kind = "State" )
        => /\ client'.history = Append(client.history, "State")
           /\ client'.log = Append(client.log, "on_update") ]_vars

(***************************************************************************)
(* C36: NetworkSocket.receive delivers every complete framed message that  *)
(* arrives exactly once and in arrival order: what it has returned is      *)
(* always a prefix of the messages the peer wrote, returning a message     *)
(* takes only that one occurrence out of the buffer, and once all bytes    *)
(* are read and no framed message is left in the buffer, every message     *)
(* has been returned.                                                      *)
(***************************************************************************)
IsPrefix(s, t) == Len(s) <= Len(t) /\ SubSeq(t, 1, Len(s)) = s

\* buf without the occurrence of sub at position i.
WithoutAt(buf, i, sub) ==
    SubSeq(buf, 1, i - 1) \o SubSeq(buf, i + Len(sub), Len(buf))

C36_ExactlyOnceInOrder ==
    /\ [](IsPrefix(net.returned, net.stream))
    /\ []((net.wire = <<>> /\ regex_search(net.buffer) = None)
             => net.returned = net.stream)
    /\ [][ Len(net'.returned) = Len(net.returned) + 1
           => \E i \in 1 .. Len(net.buffer \o net'.chunk) :
                 /\ has_at(net.buffer \o net'.chunk, i, Get(net'.ret))
                 /\ net'.buffer = WithoutAt(net.buffer \o net'.chunk, i, Get(net'.ret)) ]_vars

(***************************************************************************)
(* C37: a complete framed message held in the buffer is returned by the    *)
(* receive calls that follow even if no further bytes arrive: a receive    *)
(* call whose socket read times out or yields no data returns the framed   *)
(* message the buffer already holds.                                       *)
(***************************************************************************)
C37_BufferedMessageReturned ==
    [][ ( /\ net'.tick # net.tick
          /\ net'.connected
          /\ net'.chunk = <<>>
          /\ regex_search(net.buffer) # None )
        => net'.ret = regex_search(net.buffer) ]_vars


====
